---- MODULE Spec2Model ----
(***************************************************************************)
(* A model of the oci-spec-rs data types of src/distribution/error.rs,     *)
(* src/image/index.rs, src/runtime/hooks.rs, src/runtime/miscellaneous.rs  *)
(* and src/runtime/solaris.rs: the struct declarations with their serde    *)
(* and derive_builder attributes, the code those attributes derive         *)
(* (Serialize, Deserialize, the builders), the hand-written Default impls  *)
(* and helpers, and the life of a value: constructed (literal, default,    *)
(* builder), encoded to a JSON document, decoded again.                    *)
(*                                                                         *)
(* A JSON document is modelled as the ordered tree serde_json writes: the  *)
(* writer is a deterministic, injective function of the ordered tree and   *)
(* of the mode (compact or pretty), so two documents are byte-identical    *)
(* exactly when mode and ordered tree are equal.                           *)
(***************************************************************************)
EXTENDS Integers, Sequences, FiniteSets, TLC

VARIABLES
    pc,        \* "idle" | "building" | "failed" | "entity" | "encoded" | "wire" | "decoded"
    ty,        \* name of the struct being handled ("" when idle)
    builder,   \* the builder's accumulated fields: field name -> Option
    built,     \* the Result of the builder's build(), NoResult before it
    entity,    \* the value in hand, as a one-element sequence; <<>> when none
    origin,    \* how entity came to be: "literal" | "default" | "builder" | "decode"
    iter,      \* iteration order of the value's annotations HashMap instance
    doc,       \* Result of the last encode, or the document received on the wire
    prevdoc,   \* the document the value in hand was decoded from, <<>> when none
    decoded,   \* Result of the last decode, NoResult before it
    mounts     \* the Vec<Mount> values that callers of get_default_mounts own

vars ==
    <<pc, ty, builder, built, entity, origin, iter, doc, prevdoc, decoded,
      mounts>>

\* the variables of the life of one value
valueVars ==
    <<pc, ty, builder, built, entity, origin, iter, doc, prevdoc, decoded>>

----------------------------------------------------------------------------
(* Bounds of the model.                                                    *)

\* longest Vec drawn as an input
MaxLen == 2
\* Hook.timeout inputs are drawn from -1 .. MaxTimeout
MaxTimeout == 1
\* ImageIndex.schema_version inputs are drawn from 1 .. MaxSchemaVersion
MaxSchemaVersion == 3

----------------------------------------------------------------------------
(* Rust's Option and Result.                                               *)

None == <<>>
Some(v) == <<v>>
IsNone(o) == Len(o) = 0
IsSome(o) == Len(o) = 1

Ok(v) == [ok |-> TRUE, val |-> v]
Err(kind, field) == [ok |-> FALSE, kind |-> kind, field |-> field]
NoResult == [ok |-> FALSE, kind |-> "none", field |-> ""]

Range(s) == {s[i] : i \in 1..Len(s)}

\* sequences over S of length at most n
RECURSIVE SeqsUpTo(_, _)
SeqsUpTo(S, n) ==
    IF n = 0 THEN {<<>>}
    ELSE LET shorter == SeqsUpTo(S, n - 1)
         IN  shorter \cup {Append(s, x) : s \in {t \in shorter : Len(t) = n - 1}, x \in S}

\* the orders in which the keys K can be iterated
RECURSIVE Orders(_)
Orders(K) ==
    IF K = {} THEN {<<>>}
    ELSE UNION {{<<k>> \o o : o \in Orders(K \ {k})} : k \in K}

RECURSIVE Join(_, _)
Join(words, sep) ==
    IF Len(words) = 0 THEN ""
    ELSE IF Len(words) = 1 THEN words[1]
    ELSE words[1] \o sep \o Join(Tail(words), sep)

----------------------------------------------------------------------------
(* Field types.                                                            *)

TString == [k |-> "String"]
TPathBuf == [k |-> "PathBuf"]
TI64 == [k |-> "i64"]
TU32 == [k |-> "u32"]
TBool == [k |-> "bool"]
TErrorCode == [k |-> "ErrorCode"]
TMediaType == [k |-> "MediaType"]
TDescriptor == [k |-> "Descriptor"]
THashMap == [k |-> "HashMap"]
TOption(t) == [k |-> "Option", of |-> t]
TVec(t) == [k |-> "Vec", of |-> t]
TStruct(n) == [k |-> "struct", name |-> n]

----------------------------------------------------------------------------
(* serde's rename rules, applied to identifiers given as their words.      *)

\* char::to_ascii_uppercase over the words of the ErrorCode variants
ToAsciiUppercase ==
    [Blob |-> "BLOB", Unknown |-> "UNKNOWN", Upload |-> "UPLOAD",
     Invalid |-> "INVALID", Digest |-> "DIGEST", Manifest |-> "MANIFEST",
     Name |-> "NAME", Size |-> "SIZE", Unauthorized |-> "UNAUTHORIZED",
     Denied |-> "DENIED", Unsupported |-> "UNSUPPORTED", Too |-> "TOO",
     Many |-> "MANY", Requests |-> "REQUESTS"]

\* the first letter upper-cased, over the non-leading words of the field names
Capitalize ==
    [version |-> "Version", type |-> "Type", runtime |-> "Runtime",
     container |-> "Container", shm |-> "Shm", memory |-> "Memory",
     cpu |-> "Cpu", link |-> "Link", allowed |-> "Allowed",
     address |-> "Address", protection |-> "Protection",
     features |-> "Features"]

\* rename_all = "SCREAMING_SNAKE_CASE" for a variant FooBar: FOO_BAR
ScreamingSnakeCase(words) ==
    Join([i \in 1..Len(words) |-> ToAsciiUppercase[words[i]]], "_")

\* rename_all = "camelCase" for a field foo_bar: fooBar
CamelCase(words) ==
    Join([i \in 1..Len(words) |->
            IF i = 1 THEN words[i] ELSE Capitalize[words[i]]], "")

\* the Rust identifier of a field: foo_bar
SnakeCase(words) == Join(words, "_")

----------------------------------------------------------------------------
(* enum ErrorCode, #[serde(rename_all = "SCREAMING_SNAKE_CASE")].          *)

Variant(words, rename) == [words |-> words, rename |-> rename]

ErrorCode_NoRename ==
    << Variant(<<"Blob", "Unknown">>, None),
       Variant(<<"Blob", "Upload", "Invalid">>, None),
       Variant(<<"Blob", "Upload", "Unknown">>, None),
       Variant(<<"Digest", "Invalid">>, None),
       Variant(<<"Manifest", "Blob", "Unknown">>, None),
       Variant(<<"Manifest", "Invalid">>, None),
       Variant(<<"Manifest", "Unknown">>, None),
       Variant(<<"Name", "Invalid">>, None),
       Variant(<<"Name", "Unknown">>, None),
       Variant(<<"Size", "Invalid">>, None),
       Variant(<<"Unauthorized">>, None),
       Variant(<<"Denied">>, None),
       Variant(<<"Unsupported">>, None),
       Variant(<<"Too", "Many", "Requests">>, None) >>

ErrorCode ==
    << Variant(<<"Blob", "Unknown">>, None),
       Variant(<<"Blob", "Upload", "Invalid">>, None),
       Variant(<<"Blob", "Upload", "Unknown">>, None),
       Variant(<<"Digest", "Invalid">>, None),
       Variant(<<"Manifest", "Blob", "Unknown">>, None),
       Variant(<<"Manifest", "Invalid">>, None),
       Variant(<<"Manifest", "Unknown">>, None),
       Variant(<<"Name", "Invalid">>, None),
       Variant(<<"Name", "Unknown">>, None),
       Variant(<<"Size", "Invalid">>, None),
       Variant(<<"Unauthorized">>, None),
       Variant(<<"Denied">>, None),
       Variant(<<"Unsupported">>, None),
       Variant(<<"Too", "Many", "Requests">>, Some("TOOMANYREQUESTS")) >>

\* the variant's name in the source: BlobUnknown
VariantIdent(v) == Join(v.words, "")

\* the string the variant is serialized as and deserialized from
VariantLiteral(v) ==
    IF IsSome(v.rename) THEN v.rename[1] ELSE ScreamingSnakeCase(v.words)

ErrorCodes == {VariantIdent(ErrorCode[i]) : i \in 1..Len(ErrorCode)}

\* impl Serialize for ErrorCode
SerializeErrorCode ==
    [c \in ErrorCodes |->
        VariantLiteral(ErrorCode[CHOOSE i \in 1..Len(ErrorCode) :
                                    VariantIdent(ErrorCode[i]) = c])]

\* impl Deserialize for ErrorCode: the variant whose literal is lit, if any
DeserializeErrorCode(lit) ==
    LET hit == {i \in 1..Len(ErrorCode) : VariantLiteral(ErrorCode[i]) = lit}
    IN  IF hit = {} THEN Err("unknown variant", lit)
        ELSE Ok(VariantIdent(ErrorCode[CHOOSE i \in hit : TRUE]))

----------------------------------------------------------------------------
(* The values drawn as inputs.                                             *)

\* longest errors and manifests sequences drawn as inputs
MaxErrors == 2
MaxManifests == 2

\* a PathBuf is an OsString: it can hold bytes that are not UTF-8
NonUtf8Path == "<0xFF>"
IsUtf8(p) == p # NonUtf8Path

Strings == {"", "s"}
VecStrings == SeqsUpTo({"a"}, MaxLen)
Timeouts == (0 - 1) .. MaxTimeout
SchemaVersions == 1 .. MaxSchemaVersion
AnnotationKeys == {"org.a", "org.b"}
HashMaps == {[k \in K |-> "v"] : K \in SUBSET AnnotationKeys}
MediaTypes == {"application/vnd.oci.image.index.v1+json"}

----------------------------------------------------------------------------
(* A struct declaration: its fields in declaration order, each with its    *)
(* serde and builder attributes.                                           *)

Field(words, type, inputs) ==
    [words |-> words, ty |-> type, rename |-> None, serde_default |-> FALSE,
     skip_serializing_if |-> "never", builder_default |-> FALSE,
     inputs |-> inputs]

\* #[serde(default)]
SerdeDefault(f) == [f EXCEPT !.serde_default = TRUE]
\* #[serde(skip_serializing_if = "Option::is_none")]
SkipIfNone(f) == [f EXCEPT !.skip_serializing_if = "Option::is_none"]
\* #[serde(rename = "...")]
Rename(f, n) == [f EXCEPT !.rename = Some(n)]
\* #[builder(default)], #[builder(default = "None")]
BuilderDefault(f) == [f EXCEPT !.builder_default = TRUE]

\* the key of a field, mutated: #[serde(rename = "...")] is left out
WireName_NoRename(rename_all, f) ==
    IF rename_all = Some("camelCase") THEN CamelCase(f.words)
    ELSE SnakeCase(f.words)

\* the key a field is written under and read from
WireName(rename_all, f) ==
    IF IsSome(f.rename) THEN f.rename[1]
    ELSE IF rename_all = Some("camelCase") THEN CamelCase(f.words)
    ELSE SnakeCase(f.words)

\* default: "derive" (#[derive(Default)]), "impl" (impl Default) or "none";
\* builder_default: the struct-level #[builder(default)]
Struct(name, rename_all, default, builder_default, fields) ==
    [name |-> name, rename_all |-> rename_all, default |-> default,
     builder_default |-> builder_default,
     fields |-> [i \in 1..Len(fields) |->
                    [name |-> SnakeCase(fields[i].words),
                     wire |-> WireName(rename_all, fields[i])] @@ fields[i]]]

----------------------------------------------------------------------------
(* src/distribution/error.rs                                               *)

ErrorInfo ==
    Struct("ErrorInfo", None, "none", FALSE,
      << Field(<<"code">>, TErrorCode, ErrorCodes),
         BuilderDefault(SkipIfNone(SerdeDefault(
            Field(<<"message">>, TOption(TString), {"m"})))),
         BuilderDefault(SkipIfNone(SerdeDefault(
            Field(<<"detail">>, TOption(TString), Strings)))) >>)

SampleErrorInfos ==
    { [code |-> "BlobUnknown", message |-> None, detail |-> None],
      [code |-> "TooManyRequests", message |-> Some("m"), detail |-> Some("")] }

ErrorResponse ==
    Struct("ErrorResponse", None, "none", FALSE,
      << Field(<<"errors">>, TVec(TStruct("ErrorInfo")),
               SeqsUpTo(SampleErrorInfos, MaxErrors)) >>)

----------------------------------------------------------------------------
(* src/runtime/hooks.rs                                                    *)

Hook ==
    Struct("Hook", None, "derive", TRUE,
      << Field(<<"path">>, TPathBuf, {"", "/usr/bin/hook", NonUtf8Path}),
         SkipIfNone(SerdeDefault(
            Field(<<"args">>, TOption(TVec(TString)), VecStrings))),
         SkipIfNone(SerdeDefault(
            Field(<<"env">>, TOption(TVec(TString)), VecStrings))),
         SkipIfNone(SerdeDefault(
            Field(<<"timeout">>, TOption(TI64), Timeouts))) >>)

SampleHook ==
    [path |-> "/usr/bin/hook", args |-> Some(<<"a">>), env |-> None,
     timeout |-> Some(1)]

VecHooks == {<<>>, <<SampleHook>>}

Hooks ==
    Struct("Hooks", Some("camelCase"), "derive", TRUE,
      << SkipIfNone(SerdeDefault(
            Field(<<"prestart">>, TOption(TVec(TStruct("Hook"))), VecHooks))),
         SkipIfNone(SerdeDefault(
            Field(<<"create", "runtime">>, TOption(TVec(TStruct("Hook"))), VecHooks))),
         SkipIfNone(SerdeDefault(
            Field(<<"create", "container">>, TOption(TVec(TStruct("Hook"))), VecHooks))),
         SkipIfNone(SerdeDefault(
            Field(<<"start", "container">>, TOption(TVec(TStruct("Hook"))), VecHooks))),
         SkipIfNone(SerdeDefault(
            Field(<<"poststart">>, TOption(TVec(TStruct("Hook"))), VecHooks))),
         SkipIfNone(SerdeDefault(
            Field(<<"poststop">>, TOption(TVec(TStruct("Hook"))), VecHooks))) >>)

----------------------------------------------------------------------------
(* src/runtime/miscellaneous.rs                                            *)

Root ==
    Struct("Root", None, "impl", TRUE,
      << SerdeDefault(
            Field(<<"path">>, TPathBuf, {"", "rootfs", "/r", NonUtf8Path})),
         SkipIfNone(SerdeDefault(
            Field(<<"readonly">>, TOption(TBool), BOOLEAN))) >>)

Mount ==
    Struct("Mount", None, "derive", TRUE,
      << Field(<<"destination">>, TPathBuf, {"", "/proc", NonUtf8Path}),
         Rename(SkipIfNone(SerdeDefault(
            Field(<<"typ">>, TOption(TString), {"", "proc"}))), "type"),
         SkipIfNone(SerdeDefault(
            Field(<<"source">>, TOption(TPathBuf), {"proc", NonUtf8Path}))),
         SkipIfNone(SerdeDefault(
            Field(<<"options">>, TOption(TVec(TString)), VecStrings))) >>)

----------------------------------------------------------------------------
(* src/runtime/solaris.rs                                                  *)

SolarisCappedCPU ==
    Struct("SolarisCappedCPU", None, "derive", TRUE,
      << SkipIfNone(SerdeDefault(
            Field(<<"ncpus">>, TOption(TString), {"", "8"}))) >>)

SolarisCappedMemory ==
    Struct("SolarisCappedMemory", None, "derive", TRUE,
      << SkipIfNone(SerdeDefault(
            Field(<<"physical">>, TOption(TString), {"", "512m"}))),
         SkipIfNone(SerdeDefault(
            Field(<<"swap">>, TOption(TString), {"", "512m"}))) >>)

SolarisAnet ==
    Struct("SolarisAnet", Some("camelCase"), "derive", TRUE,
      << SkipIfNone(SerdeDefault(
            Field(<<"linkname">>, TOption(TString), {"net0"}))),
         SkipIfNone(SerdeDefault(
            Field(<<"lower", "link">>, TOption(TString), {"net2"}))),
         SkipIfNone(SerdeDefault(
            Field(<<"allowed", "address">>, TOption(TString), {"172.17.0.2/16"}))),
         SkipIfNone(SerdeDefault(
            Field(<<"configure", "allowed", "address">>, TOption(TString), {"true"}))),
         SkipIfNone(SerdeDefault(
            Field(<<"defrouter">>, TOption(TString), {"172.17.0.1/16"}))),
         SkipIfNone(SerdeDefault(
            Field(<<"link", "protection">>, TOption(TString), {"mac-nospoof"}))),
         SkipIfNone(SerdeDefault(
            Field(<<"mac", "address">>, TOption(TString), {""}))) >>)

SampleAnet ==
    [linkname |-> Some("net0"), lower_link |-> Some("net2"),
     allowed_address |-> None, configure_allowed_address |-> None,
     defrouter |-> None, link_protection |-> None, mac_address |-> Some("")]

Solaris ==
    Struct("Solaris", Some("camelCase"), "derive", TRUE,
      << SkipIfNone(SerdeDefault(
            Field(<<"milestone">>, TOption(TString), {"svc:/milestone"}))),
         SkipIfNone(SerdeDefault(
            Field(<<"limitpriv">>, TOption(TString), {"default"}))),
         SkipIfNone(SerdeDefault(
            Field(<<"max", "shm", "memory">>, TOption(TString), {"", "512m"}))),
         SkipIfNone(SerdeDefault(
            Field(<<"anet">>, TOption(TVec(TStruct("SolarisAnet"))),
                  {<<>>, <<SampleAnet>>}))),
         Rename(SkipIfNone(SerdeDefault(
            Field(<<"capped", "cpu">>, TOption(TStruct("SolarisCappedCPU")),
                  {[ncpus |-> None], [ncpus |-> Some("8")]}))), "cappedCPU"),
         SkipIfNone(SerdeDefault(
            Field(<<"capped", "memory">>, TOption(TStruct("SolarisCappedMemory")),
                  {[physical |-> Some("512m"), swap |-> None]}))) >>)

----------------------------------------------------------------------------
(* src/image/index.rs                                                      *)

SCHEMA_VERSION == 2

\* Platform and Descriptor are declared in src/image/ outside the files at
\* hand: their fields are those the data model lists, their values the two
\* descriptors that tests::create_index builds.
Platform ==
    Struct("Platform", Some("camelCase"), "none", FALSE,
      << Field(<<"architecture">>, TString, {"ppc64le", "amd64"}),
         Field(<<"os">>, TString, {"linux"}),
         SkipIfNone(Field(<<"os", "version">>, TOption(TString), {})),
         SkipIfNone(Field(<<"os", "features">>, TOption(TVec(TString)), {})),
         SkipIfNone(Field(<<"variant">>, TOption(TString), {})) >>)

Descriptor ==
    Struct("Descriptor", Some("camelCase"), "none", FALSE,
      << Field(<<"media", "type">>, TMediaType,
               {"application/vnd.oci.image.manifest.v1+json"}),
         Field(<<"digest">>, TString, {}),
         Field(<<"size">>, TI64, {}),
         SkipIfNone(Field(<<"urls">>, TOption(TVec(TString)), {})),
         SkipIfNone(Field(<<"annotations">>, TOption(THashMap), {})),
         SkipIfNone(Field(<<"platform">>, TOption(TStruct("Platform")), {})) >>)

PpcManifest ==
    [media_type |-> "application/vnd.oci.image.manifest.v1+json",
     digest |-> "sha256:e692418e4cbaf90ca69d05a66403747baa33ee08806650b51fab815ad7fc331f",
     size |-> 7143, urls |-> None, annotations |-> None,
     platform |-> Some([architecture |-> "ppc64le", os |-> "linux",
                        os_version |-> None, os_features |-> None,
                        variant |-> None])]

Amd64Manifest ==
    [media_type |-> "application/vnd.oci.image.manifest.v1+json",
     digest |-> "sha256:5b0bcabd1ed22e9fb1310cf6c2dec7cdef19f0ad69efa1f392e94a4333501270",
     size |-> 7682, urls |-> None, annotations |-> None,
     platform |-> Some([architecture |-> "amd64", os |-> "linux",
                        os_version |-> None, os_features |-> None,
                        variant |-> None])]

ImageIndex ==
    Struct("ImageIndex", Some("camelCase"), "impl", FALSE,
      << Field(<<"schema", "version">>, TU32, SchemaVersions),
         BuilderDefault(SkipIfNone(
            Field(<<"media", "type">>, TOption(TMediaType), MediaTypes))),
         Field(<<"manifests">>, TVec(TStruct("Descriptor")),
               SeqsUpTo({PpcManifest, Amd64Manifest}, MaxManifests)),
         BuilderDefault(SkipIfNone(
            Field(<<"annotations">>, TOption(THashMap), HashMaps))) >>)

\* tests::create_index
create_index ==
    [schema_version |-> SCHEMA_VERSION, media_type |-> None,
     manifests |-> <<PpcManifest, Amd64Manifest>>, annotations |-> None]

----------------------------------------------------------------------------
(* The catalog.                                                            *)

Catalog ==
    {"ErrorResponse", "ErrorInfo", "ImageIndex", "Hooks", "Hook", "Root",
     "Mount", "Solaris", "SolarisAnet", "SolarisCappedCPU",
     "SolarisCappedMemory"}

StructOf(name) ==
    CASE name = "ErrorResponse" -> ErrorResponse
      [] name = "ErrorInfo" -> ErrorInfo
      [] name = "ImageIndex" -> ImageIndex
      [] name = "Descriptor" -> Descriptor
      [] name = "Platform" -> Platform
      [] name = "Hooks" -> Hooks
      [] name = "Hook" -> Hook
      [] name = "Root" -> Root
      [] name = "Mount" -> Mount
      [] name = "Solaris" -> Solaris
      [] name = "SolarisAnet" -> SolarisAnet
      [] name = "SolarisCappedCPU" -> SolarisCappedCPU
      [] name = "SolarisCappedMemory" -> SolarisCappedMemory

FieldNames(S) == {S.fields[i].name : i \in 1..Len(S.fields)}
FieldOf(S, n) == S.fields[CHOOSE i \in 1..Len(S.fields) : S.fields[i].name = n]
MinOf(I) == CHOOSE i \in I : \A j \in I : i <= j

----------------------------------------------------------------------------
(* Default.                                                                *)

\* Root::default(), mutated: readonly is left unspecified
RootDefault_ReadonlyNone == [path |-> "rootfs", readonly |-> None]

\* Root::default(), mutated: the path is the empty path
RootDefault_PathEmpty == [path |-> "", readonly |-> Some(TRUE)]

\* impl Default for Root
RootDefault == [path |-> "rootfs", readonly |-> Some(TRUE)]

\* impl Default for ImageIndex
ImageIndexDefault ==
    [schema_version |-> SCHEMA_VERSION, media_type |-> None,
     manifests |-> <<>>, annotations |-> None]

\* Default::default() of a field type; #[derive(Default)] of a struct
RECURSIVE TypeDefault(_)
TypeDefault(t) ==
    CASE t.k \in {"String", "PathBuf"} -> ""
      [] t.k \in {"i64", "u32"} -> 0
      [] t.k = "bool" -> FALSE
      [] t.k = "Option" -> None
      [] t.k \in {"Vec", "HashMap"} -> <<>>
      [] t.k = "struct" ->
            LET S == StructOf(t.name)
            IN  [n \in FieldNames(S) |-> TypeDefault(FieldOf(S, n).ty)]

DefaultOf(S) ==
    CASE S.name = "Root" -> RootDefault
      [] S.name = "ImageIndex" -> ImageIndexDefault
      [] OTHER -> TypeDefault(TStruct(S.name))

----------------------------------------------------------------------------
(* JSON values: the ordered tree of a document.                            *)

JNull == [j |-> "null"]
JString(s) == [j |-> "string", v |-> s]
JNumber(n) == [j |-> "number", v |-> n]
JBool(b) == [j |-> "bool", v |-> b]
JArray(items) == [j |-> "array", v |-> items]
JObject(members) == [j |-> "object", v |-> members]
Member(key, value) == [k |-> key, v |-> value]

Keys(obj) == {obj.v[i].k : i \in 1..Len(obj.v)}
HasKey(obj, key) == key \in Keys(obj)
ValueAt(obj, key) == obj.v[CHOOSE i \in 1..Len(obj.v) : obj.v[i].k = key].v

----------------------------------------------------------------------------
(* #[derive(Serialize)]                                                    *)

\* skip_serializing_if, mutated: Option<Vec> skipped when None or empty
SkipSerializing_OrEmpty(f, v) ==
    /\ f.skip_serializing_if = "Option::is_none"
    /\ (IsNone(v) \/ (f.ty.of.k = "Vec" /\ v = Some(<<>>)))

\* skip_serializing_if, mutated: the attribute is missing on bool fields
SkipSerializing_NotBool(f, v) ==
    /\ f.skip_serializing_if = "Option::is_none"
    /\ f.ty.of.k # "bool"
    /\ IsNone(v)

\* whether field f holding v is left out of the object
SkipSerializing(f, v) ==
    /\ f.skip_serializing_if = "Option::is_none"
    /\ IsNone(v)

\* whether serializing v fails: serde's impl Serialize for Path fails on a
\* path that is not UTF-8
RECURSIVE SerializeFails(_, _)
SerializeFails(t, v) ==
    CASE t.k = "PathBuf" -> ~IsUtf8(v)
      [] t.k = "Option" -> IsSome(v) /\ SerializeFails(t.of, v[1])
      [] t.k = "Vec" -> \E i \in 1..Len(v) : SerializeFails(t.of, v[i])
      [] t.k = "struct" ->
            LET S == StructOf(t.name)
            IN  \E i \in 1..Len(S.fields) :
                    SerializeFails(S.fields[i].ty, v[S.fields[i].name])
      [] OTHER -> FALSE

\* the JSON value of v; order is the iteration order of the value's HashMap
RECURSIVE SerializeValue(_, _, _)
SerializeValue(t, v, order) ==
    CASE t.k \in {"String", "PathBuf", "MediaType"} -> JString(v)
      [] t.k \in {"i64", "u32"} -> JNumber(v)
      [] t.k = "bool" -> JBool(v)
      [] t.k = "ErrorCode" -> JString(SerializeErrorCode[v])
      [] t.k = "Option" ->
            IF IsNone(v) THEN JNull ELSE SerializeValue(t.of, v[1], order)
      [] t.k = "Vec" ->
            JArray([i \in 1..Len(v) |-> SerializeValue(t.of, v[i], order)])
      [] t.k = "HashMap" ->
            JObject([i \in 1..Len(order) |->
                        Member(order[i], JString(v[order[i]]))])
      [] t.k = "struct" ->
            LET S == StructOf(t.name)
                kept == SelectSeq(S.fields,
                            LAMBDA f : ~SkipSerializing(f, v[f.name]))
            IN  JObject([i \in 1..Len(kept) |->
                    Member(kept[i].wire,
                           SerializeValue(kept[i].ty, v[kept[i].name], order))])

\* serde_json::to_writer / to_writer_pretty of a value of struct S
Serialize(S, v, order, pretty) ==
    IF SerializeFails(TStruct(S.name), v)
    THEN Err("path contains invalid UTF-8 characters", S.name)
    ELSE Ok([pretty |-> pretty,
             json |-> SerializeValue(TStruct(S.name), v, order)])

----------------------------------------------------------------------------
(* #[derive(Deserialize)]                                                  *)

\* #[serde(deny_unknown_fields)], mutated: Solaris and Hook carry it
DenyUnknownFields_SolarisAndHook(S) == S.name \in {"Solaris", "Hook"}

\* whether the struct carries #[serde(deny_unknown_fields)]: none does, so
\* a key that is no field's key is skipped
DenyUnknownFields(S) == FALSE

\* a field that the object does not hold
MissingField_NoDefault(f) ==
    IF f.ty.k = "Option" THEN Ok(None)
    ELSE Err("missing field", f.wire)

MissingField(f) ==
    IF f.ty.k = "Option" THEN Ok(None)
    ELSE IF f.serde_default THEN Ok(TypeDefault(f.ty))
    ELSE Err("missing field", f.wire)

RECURSIVE DeserializeValue(_, _)
DeserializeValue(t, j) ==
    CASE t.k \in {"String", "PathBuf", "MediaType"} ->
            IF j.j = "string" THEN Ok(j.v) ELSE Err("invalid type", t.k)
      [] t.k = "i64" ->
            IF j.j = "number" THEN Ok(j.v) ELSE Err("invalid type", t.k)
      [] t.k = "u32" ->
            IF j.j # "number" THEN Err("invalid type", t.k)
            ELSE IF j.v < 0 THEN Err("invalid value", t.k)
            ELSE Ok(j.v)
      [] t.k = "bool" ->
            IF j.j = "bool" THEN Ok(j.v) ELSE Err("invalid type", t.k)
      [] t.k = "ErrorCode" ->
            IF j.j = "string" THEN DeserializeErrorCode(j.v)
            ELSE Err("invalid type", t.k)
      [] t.k = "Option" ->
            IF j.j = "null" THEN Ok(None)
            ELSE LET r == DeserializeValue(t.of, j)
                 IN  IF r.ok THEN Ok(Some(r.val)) ELSE r
      [] t.k = "Vec" ->
            IF j.j # "array" THEN Err("invalid type", t.k)
            ELSE LET rs == [i \in 1..Len(j.v) |-> DeserializeValue(t.of, j.v[i])]
                     bad == {i \in 1..Len(j.v) : ~rs[i].ok}
                 IN  IF bad # {} THEN rs[MinOf(bad)]
                     ELSE Ok([i \in 1..Len(j.v) |-> rs[i].val])
      [] t.k = "HashMap" ->
            IF j.j # "object" THEN Err("invalid type", t.k)
            ELSE IF \E i \in 1..Len(j.v) : j.v[i].v.j # "string"
            THEN Err("invalid type", "String")
            ELSE Ok([key \in Keys(j) |->
                       j.v[CHOOSE i \in 1..Len(j.v) :
                              /\ j.v[i].k = key
                              /\ \A h \in 1..Len(j.v) : j.v[h].k = key => h <= i].v.v])
      [] t.k = "struct" ->
            IF j.j # "object" THEN Err("invalid type", t.name)
            ELSE LET S == StructOf(t.name)
                     At(f) == {i \in 1..Len(j.v) : j.v[i].k = f.wire}
                     Get(f) ==
                        IF At(f) = {} THEN MissingField(f)
                        ELSE IF Cardinality(At(f)) > 1
                        THEN Err("duplicate field", f.wire)
                        ELSE DeserializeValue(f.ty, j.v[CHOOSE i \in At(f) : TRUE].v)
                     rs == [i \in 1..Len(S.fields) |-> Get(S.fields[i])]
                     bad == {i \in 1..Len(S.fields) : ~rs[i].ok}
                     unknown == {i \in 1..Len(j.v) :
                                    \A h \in 1..Len(S.fields) :
                                        S.fields[h].wire # j.v[i].k}
                 IN  IF DenyUnknownFields(S) /\ unknown # {}
                     THEN Err("unknown field", j.v[MinOf(unknown)].k)
                     ELSE IF bad # {} THEN rs[MinOf(bad)]
                     ELSE Ok([n \in FieldNames(S) |->
                                rs[CHOOSE i \in 1..Len(S.fields) :
                                      S.fields[i].name = n].val])

\* serde_json::from_reader of a document into struct S
Deserialize(S, d) == DeserializeValue(TStruct(S.name), d.json)

----------------------------------------------------------------------------
(* #[derive(derive_builder::Builder)], pattern = "owned",                  *)
(* setter(into, strip_option).                                             *)

\* XBuilder::default(): no field assigned
BuilderNew(S) == [n \in FieldNames(S) |-> None]

\* the setter of field n, mutated: it starts from an empty builder
Setter_ResetsOthers(S, b, n, x) ==
    [m \in FieldNames(S) |->
        IF m # n THEN None
        ELSE Some(IF FieldOf(S, n).ty.k = "Option" THEN Some(x) ELSE x)]

\* the setter of field n: an Option field takes the inner value
Setter(S, b, n, x) ==
    [b EXCEPT ![n] = Some(IF FieldOf(S, n).ty.k = "Option" THEN Some(x) ELSE x)]

\* build(), mutated: only the first field is checked for being set
Build_ChecksFirstField(S, b) ==
    IF S.builder_default
    THEN Ok([n \in FieldNames(S) |->
               IF IsSome(b[n]) THEN b[n][1] ELSE DefaultOf(S)[n]])
    ELSE IF IsNone(b[S.fields[1].name]) /\ ~S.fields[1].builder_default
    THEN Err("UninitializedField", S.fields[1].name)
    ELSE Ok([n \in FieldNames(S) |->
               IF IsSome(b[n]) THEN b[n][1]
               ELSE TypeDefault(FieldOf(S, n).ty)])

\* build(), mutated: the struct-level #[builder(default)] is read as one
\* #[builder(default)] on every field, so an unset field takes the default
\* of its own type
Build_FieldDefaults(S, b) ==
    LET missing == {i \in 1..Len(S.fields) :
                        /\ IsNone(b[S.fields[i].name])
                        /\ ~S.fields[i].builder_default
                        /\ ~S.builder_default}
    IN  IF missing # {}
        THEN Err("UninitializedField", S.fields[MinOf(missing)].name)
        ELSE Ok([n \in FieldNames(S) |->
                    IF IsSome(b[n]) THEN b[n][1]
                    ELSE TypeDefault(FieldOf(S, n).ty)])

\* build(): with the struct-level #[builder(default)] an unset field takes
\* its value in Default::default() of the struct; without it, an unset
\* field takes its own #[builder(default)] and is an error if it has none
Build(S, b) ==
    IF S.builder_default
    THEN Ok([n \in FieldNames(S) |->
               IF IsSome(b[n]) THEN b[n][1] ELSE DefaultOf(S)[n]])
    ELSE LET missing == {i \in 1..Len(S.fields) :
                            /\ IsNone(b[S.fields[i].name])
                            /\ ~S.fields[i].builder_default}
         IN  IF missing # {}
             THEN Err("UninitializedField", S.fields[MinOf(missing)].name)
             ELSE Ok([n \in FieldNames(S) |->
                        IF IsSome(b[n]) THEN b[n][1]
                        ELSE TypeDefault(FieldOf(S, n).ty)])

\* ErrorResponse::detail, mutated: the slice in reverse order
detail_Reversed(r) == [i \in 1..Len(r.errors) |-> r.errors[Len(r.errors) + 1 - i]]

\* ErrorResponse::detail
detail(r) == r.errors

\* the string returned by an ErrorResponse error
ERR_REGISTRY == "distribution: registry returned error"

\* impl Display for ErrorResponse, through ToString::to_string
to_string(r) == ERR_REGISTRY

----------------------------------------------------------------------------
(* The values a caller can write as a struct literal.                      *)

Values(f) ==
    IF f.ty.k = "Option" THEN {None} \cup {Some(x) : x \in f.inputs}
    ELSE f.inputs

RECURSIVE Literals(_, _)
Literals(S, i) ==
    IF i = 0 THEN {<<>>}
    ELSE {r @@ (S.fields[i].name :> x) :
            r \in Literals(S, i - 1), x \in Values(S.fields[i])}

Universe(S) == Literals(S, Len(S.fields))

\* the orders in which the HashMap instance of a new value may iterate:
\* std's HashMap seeds each instance's hasher at random
IterOrders(S, v) ==
    IF S.name = "ImageIndex" /\ IsSome(v.annotations)
    THEN Orders(DOMAIN v.annotations[1])
    ELSE {<<>>}

\* string literals that arrive on the wire where an ErrorCode is expected
WireLiterals ==
    {SerializeErrorCode[c] : c \in ErrorCodes}
        \cup {"TOOMANYREQUESTS", "TOO_MANY_REQUESTS", "toomanyrequests",
              "blob_unknown", "BlobUnknown", "TooManyRequests", ""}

\* a member whose key is the key of no field of any struct
UnknownMember == Member("x-unknown", JString("v"))

\* the documents that are j, a document of type t, with the unknown member
\* added to one object of a struct of the catalog, at any nesting level
RECURSIVE WithUnknown(_, _)
WithUnknown(t, j) ==
    CASE t.k = "struct" /\ t.name \in Catalog ->
            {JObject(Append(j.v, UnknownMember))}
                \cup UNION {{JObject([j.v EXCEPT ![i].v = x]) :
                                x \in WithUnknown(
                                    (CHOOSE f \in Range(StructOf(t.name).fields) :
                                        f.wire = j.v[i].k).ty,
                                    j.v[i].v)} : i \in 1..Len(j.v)}
      [] t.k = "Option" -> WithUnknown(t.of, j)
      [] t.k = "Vec" ->
            UNION {{JArray([j.v EXCEPT ![i] = x]) :
                        x \in WithUnknown(t.of, j.v[i])} : i \in 1..Len(j.v)}
      [] OTHER -> {}

\* other spellings of the key of field f of struct S: its Rust identifier,
\* its lowerCamelCase form, where these are no key of S
AltSpellings(S, f) ==
    {SnakeCase(f.words), CamelCase(f.words)}
        \ {S.fields[i].wire : i \in 1..Len(S.fields)}

----------------------------------------------------------------------------
(* The state machine.                                                      *)

Init ==
    /\ pc = "idle"
    /\ ty = ""
    /\ builder = <<>>
    /\ built = NoResult
    /\ entity = None
    /\ origin = ""
    /\ iter = <<>>
    /\ doc = NoResult
    /\ prevdoc = None
    /\ decoded = NoResult
    /\ mounts = <<>>

\* a struct literal
New(t) ==
    /\ pc = "idle"
    /\ \E x \in Universe(StructOf(t)) :
        \E o \in IterOrders(StructOf(t), x) :
            /\ entity' = Some(x)
            /\ iter' = o
    /\ pc' = "entity"
    /\ ty' = t
    /\ origin' = "literal"
    /\ UNCHANGED <<builder, built, doc, prevdoc, decoded, mounts>>

\* X::default()
NewDefault(t) ==
    /\ pc = "idle"
    /\ StructOf(t).default # "none"
    /\ entity' = Some(DefaultOf(StructOf(t)))
    /\ iter' = <<>>
    /\ pc' = "entity"
    /\ ty' = t
    /\ origin' = "default"
    /\ UNCHANGED <<builder, built, doc, prevdoc, decoded, mounts>>

\* XBuilder::default()
NewBuilder(t) ==
    /\ pc = "idle"
    /\ pc' = "building"
    /\ ty' = t
    /\ builder' = BuilderNew(StructOf(t))
    /\ UNCHANGED <<built, entity, origin, iter, doc, prevdoc, decoded, mounts>>

\* builder.field(x)
Set ==
    /\ pc = "building"
    /\ \E i \in 1..Len(StructOf(ty).fields) :
        \E x \in StructOf(ty).fields[i].inputs :
            builder' = Setter(StructOf(ty), builder, StructOf(ty).fields[i].name, x)
    /\ UNCHANGED <<pc, ty, built, entity, origin, iter, doc, prevdoc, decoded, mounts>>

\* builder.build()
DoBuild ==
    /\ pc = "building"
    /\ built' = Build(StructOf(ty), builder)
    /\ IF built'.ok
       THEN /\ pc' = "entity"
            /\ entity' = Some(built'.val)
            /\ origin' = "builder"
            /\ iter' \in IterOrders(StructOf(ty), built'.val)
       ELSE /\ pc' = "failed"
            /\ UNCHANGED <<entity, origin, iter>>
    /\ UNCHANGED <<ty, builder, doc, prevdoc, decoded, mounts>>

\* to_writer (pretty = FALSE), to_writer_pretty (pretty = TRUE)
Encode ==
    /\ pc = "entity"
    /\ \E pretty \in BOOLEAN :
        doc' = Serialize(StructOf(ty), entity[1], iter, pretty)
    /\ pc' = "encoded"
    /\ builder' = <<>>
    /\ built' = NoResult
    /\ UNCHANGED <<ty, entity, origin, iter, prevdoc, decoded, mounts>>

\* a document arrives that is an encoded one with a member taken out
DropMember ==
    /\ pc = "encoded"
    /\ doc.ok
    /\ \E i \in 1..Len(doc.val.json.v) :
        doc' = Ok([doc.val EXCEPT !.json.v =
                    SubSeq(doc.val.json.v, 1, i - 1)
                        \o SubSeq(doc.val.json.v, i + 1, Len(doc.val.json.v))])
    /\ pc' = "wire"
    /\ entity' = None
    /\ origin' = ""
    /\ iter' = <<>>
    /\ prevdoc' = None
    /\ UNCHANGED <<ty, builder, built, decoded, mounts>>

\* a document arrives that is an encoded one with a member of an unknown
\* key added
AddUnknown ==
    /\ pc = "encoded"
    /\ doc.ok
    /\ \E j \in WithUnknown(TStruct(ty), doc.val.json) :
        doc' = Ok([doc.val EXCEPT !.json = j])
    /\ pc' = "wire"
    /\ entity' = None
    /\ origin' = ""
    /\ iter' = <<>>
    /\ prevdoc' = None
    /\ UNCHANGED <<ty, builder, built, decoded, mounts>>

\* a document arrives that is an encoded one with the key of a member
\* spelled another way
RenameKey ==
    /\ pc = "encoded"
    /\ doc.ok
    /\ \E i \in 1..Len(doc.val.json.v) :
        \E k \in AltSpellings(StructOf(ty),
                    CHOOSE f \in Range(StructOf(ty).fields) :
                        f.wire = doc.val.json.v[i].k) :
            doc' = Ok([doc.val EXCEPT !.json.v[i].k = k])
    /\ pc' = "wire"
    /\ entity' = None
    /\ origin' = ""
    /\ iter' = <<>>
    /\ prevdoc' = None
    /\ UNCHANGED <<ty, builder, built, decoded, mounts>>

\* a document arrives whose error code is any string
ReplaceCode ==
    /\ pc = "encoded"
    /\ doc.ok
    /\ ty = "ErrorInfo"
    /\ \E lit \in WireLiterals :
        doc' = Ok([doc.val EXCEPT !.json.v =
                    [i \in 1..Len(doc.val.json.v) |->
                        IF doc.val.json.v[i].k = "code"
                        THEN Member("code", JString(lit))
                        ELSE doc.val.json.v[i]]])
    /\ pc' = "wire"
    /\ entity' = None
    /\ origin' = ""
    /\ iter' = <<>>
    /\ prevdoc' = None
    /\ UNCHANGED <<ty, builder, built, decoded, mounts>>

\* from_reader
Decode ==
    /\ pc \in {"encoded", "wire"}
    /\ doc.ok
    /\ decoded' = Deserialize(StructOf(ty), doc.val)
    /\ pc' = "decoded"
    /\ UNCHANGED <<ty, builder, built, entity, origin, iter, doc, prevdoc, mounts>>

\* the decoded value becomes the value in hand
Adopt ==
    /\ pc = "decoded"
    /\ decoded.ok
    /\ entity' = Some(decoded.val)
    /\ origin' = "decode"
    /\ iter' \in IterOrders(StructOf(ty), decoded.val)
    /\ prevdoc' = IF IsSome(entity) THEN Some(doc.val) ELSE None
    /\ doc' = NoResult
    /\ decoded' = NoResult
    /\ pc' = "entity"
    /\ UNCHANGED <<ty, builder, built, mounts>>

\* the value goes out of scope
Drop ==
    /\ pc # "idle"
    /\ pc' = "idle"
    /\ ty' = ""
    /\ builder' = <<>>
    /\ built' = NoResult
    /\ entity' = None
    /\ origin' = ""
    /\ iter' = <<>>
    /\ doc' = NoResult
    /\ prevdoc' = None
    /\ decoded' = NoResult
    /\ UNCHANGED mounts

Next ==
    \/ \E t \in Catalog : New(t)
    \/ \E t \in Catalog : NewDefault(t)
    \/ \E t \in Catalog : NewBuilder(t)
    \/ Set
    \/ DoBuild
    \/ Encode
    \/ DropMember
    \/ AddUnknown
    \/ RenameKey
    \/ ReplaceCode
    \/ Decode
    \/ Adopt
    \/ Drop

Spec == Init /\ [][Next]_vars

----------------------------------------------------------------------------
(* Round trip.                                                             *)

\* whether every PathBuf held by a value of the struct named t is UTF-8
PathsUtf8(t, v) ==
    CASE t = "Hook" -> IsUtf8(v.path)
      [] t = "Root" -> IsUtf8(v.path)
      [] t = "Mount" ->
            IsUtf8(v.destination) /\ (IsSome(v.source) => IsUtf8(v.source[1]))
      [] t = "Hooks" ->
            \A n \in DOMAIN v :
                IsSome(v[n]) => \A i \in 1..Len(v[n][1]) : IsUtf8(v[n][1][i].path)
      [] OTHER -> TRUE

\* C1 as stated: for every entity value of every catalog type, however it
\* was obtained, encoding succeeds in compact and in pretty mode, and
\* decoding the encoded document succeeds and yields the value.
C1_RoundTripEveryValue ==
    /\ pc = "encoded" => doc.ok
    /\ (pc = "decoded" /\ IsSome(entity)) => decoded = Ok(entity[1])

\* C1 amended: encoding a value succeeds exactly when every PathBuf it
\* holds is valid UTF-8; for every such value of every catalog type,
\* however it was obtained and in both modes, decode(encode(x)) succeeds
\* and equals x, a present-but-empty sequence coming back present and empty.
C1_RoundTrip ==
    /\ pc = "encoded" => (doc.ok <=> PathsUtf8(ty, entity[1]))
    /\ (pc = "decoded" /\ IsSome(entity)) => decoded = Ok(entity[1])

C1_Witness ==
    /\ pc = "decoded"
    /\ ty = "Hooks"
    /\ origin = "builder"
    /\ IsSome(entity)
    /\ entity[1].poststart = Some(<<>>)
    /\ entity[1].prestart = Some(<<SampleHook>>)
    /\ doc.val.pretty
    /\ decoded.ok
    /\ decoded.val.poststart = Some(<<>>)

----------------------------------------------------------------------------
(* Canonical form.                                                         *)

\* the keys of an object, in the order they are written
KeySeq(obj) == [i \in 1..Len(obj.v) |-> obj.v[i].k]

\* whether s is t with some elements left out
RECURSIVE IsSubSeq(_, _)
IsSubSeq(s, t) ==
    IF Len(s) = 0 THEN TRUE
    ELSE IF Len(t) = 0 THEN FALSE
    ELSE IF Head(s) = Head(t) THEN IsSubSeq(Tail(s), Tail(t))
    ELSE IsSubSeq(s, Tail(t))

\* C2: a value decoded from an encoded document encodes, in the same mode,
\* to that document byte for byte, for every catalog type; the keys of an
\* ImageIndex are written in declaration order.
C2_CanonicalIdempotence ==
    /\ (pc = "encoded" /\ doc.ok /\ IsSome(prevdoc)
            /\ prevdoc[1].pretty = doc.val.pretty)
        => doc.val = prevdoc[1]
    /\ (pc = "encoded" /\ doc.ok /\ ty = "ImageIndex")
        => IsSubSeq(KeySeq(doc.val.json),
                    <<"schemaVersion", "mediaType", "manifests", "annotations">>)

----------------------------------------------------------------------------
(* Omission of absent optional fields.                                     *)

\* whether object j holds, for value v of type t, the key of an optional
\* field exactly when the field holds a value, never null, at every level
RECURSIVE OmissionHolds(_, _, _)
OmissionHolds(t, v, j) ==
    CASE t.k = "struct" ->
            LET S == StructOf(t.name)
            IN  /\ j.j = "object"
                /\ Keys(j) \subseteq {S.fields[i].wire : i \in 1..Len(S.fields)}
                /\ \A i \in 1..Len(S.fields) :
                    LET f == S.fields[i]
                    IN  IF f.ty.k = "Option"
                        THEN /\ HasKey(j, f.wire) <=> IsSome(v[f.name])
                             /\ HasKey(j, f.wire) =>
                                  /\ ValueAt(j, f.wire).j # "null"
                                  /\ OmissionHolds(f.ty.of, v[f.name][1],
                                                   ValueAt(j, f.wire))
                        ELSE /\ HasKey(j, f.wire)
                             /\ OmissionHolds(f.ty, v[f.name], ValueAt(j, f.wire))
      [] t.k = "Vec" ->
            /\ j.j = "array"
            /\ Len(j.v) = Len(v)
            /\ \A i \in 1..Len(v) : OmissionHolds(t.of, v[i], j.v[i])
      [] OTHER -> j.j # "null"

\* C3: the encoded object holds the key of an optional field if and only
\* if the field holds a value; an absent field is not written as null, a
\* present one is written even when it is an empty sequence or string.
C3_Omission ==
    (pc = "encoded" /\ doc.ok)
        => OmissionHolds(TStruct(ty), entity[1], doc.val.json)

C3_Witness ==
    /\ pc = "encoded"
    /\ doc.ok
    /\ ty = "Mount"
    /\ entity[1].typ = Some("")
    /\ entity[1].options = Some(<<>>)
    /\ entity[1].source = None
    /\ KeySeq(doc.val.json) = <<"destination", "type", "options">>

----------------------------------------------------------------------------
(* Builders of structs without a struct-level default.                     *)

\* C4: build() of ErrorResponseBuilder, ErrorInfoBuilder and
\* ImageIndexBuilder succeeds if and only if every field without a default
\* was set, and fails with a construction error otherwise; errors set to
\* the empty list builds a response whose detail() is empty; an ErrorInfo
\* built from code alone has no message and no detail.
C4_RequiredFields ==
    (pc \in {"entity", "failed"} /\ built # NoResult) =>
        /\ ty = "ErrorResponse" => (built.ok <=> IsSome(builder.errors))
        /\ ty = "ErrorInfo" => (built.ok <=> IsSome(builder.code))
        /\ ty = "ImageIndex" =>
            (built.ok <=> (IsSome(builder.schema_version)
                            /\ IsSome(builder.manifests)))
        /\ ~built.ok => built.kind = "UninitializedField"
        /\ (ty = "ErrorResponse" /\ builder.errors = Some(<<>>)) =>
            (built.ok /\ detail(built.val) = <<>>)
        /\ (ty = "ErrorInfo" /\ IsSome(builder.code)
                /\ IsNone(builder.message) /\ IsNone(builder.detail)) =>
            (built.ok /\ built.val.message = None /\ built.val.detail = None)

C4_Witness ==
    /\ pc = "failed"
    /\ ty = "ImageIndex"
    /\ IsSome(builder.schema_version)
    /\ IsSome(builder.media_type)
    /\ IsNone(builder.manifests)
    /\ built = Err("UninitializedField", "manifests")

----------------------------------------------------------------------------
(* ErrorCode literals.                                                     *)

\* the literal of each variant, as the distribution spec lists them
ErrorCodeLiterals ==
    [BlobUnknown |-> "BLOB_UNKNOWN",
     BlobUploadInvalid |-> "BLOB_UPLOAD_INVALID",
     BlobUploadUnknown |-> "BLOB_UPLOAD_UNKNOWN",
     DigestInvalid |-> "DIGEST_INVALID",
     ManifestBlobUnknown |-> "MANIFEST_BLOB_UNKNOWN",
     ManifestInvalid |-> "MANIFEST_INVALID",
     ManifestUnknown |-> "MANIFEST_UNKNOWN",
     NameInvalid |-> "NAME_INVALID",
     NameUnknown |-> "NAME_UNKNOWN",
     SizeInvalid |-> "SIZE_INVALID",
     Unauthorized |-> "UNAUTHORIZED",
     Denied |-> "DENIED",
     Unsupported |-> "UNSUPPORTED",
     TooManyRequests |-> "TOOMANYREQUESTS"]

\* C5: each of the 14 ErrorCode variants is encoded as its literal of the
\* list, TooManyRequests as "TOOMANYREQUESTS"; a literal of the list
\* decodes to its variant, and any other string is a decode failure.
C5_ErrorCodeLiterals ==
    /\ (pc \in {"encoded", "decoded"} /\ ty = "ErrorInfo") =>
            /\ DOMAIN ErrorCodeLiterals = ErrorCodes
            /\ Cardinality(ErrorCodes) = 14
    /\ (pc = "encoded" /\ ty = "ErrorInfo" /\ doc.ok) =>
            ValueAt(doc.val.json, "code")
                = JString(ErrorCodeLiterals[entity[1].code])
    /\ (pc = "decoded" /\ ty = "ErrorInfo" /\ HasKey(doc.val.json, "code")) =>
            LET lit == ValueAt(doc.val.json, "code").v
            IN  IF \E c \in DOMAIN ErrorCodeLiterals : ErrorCodeLiterals[c] = lit
                THEN /\ decoded.ok
                     /\ ErrorCodeLiterals[decoded.val.code] = lit
                ELSE /\ ~decoded.ok
                     /\ decoded.kind = "unknown variant"

C5_Witness ==
    /\ pc = "decoded"
    /\ ty = "ErrorInfo"
    /\ HasKey(doc.val.json, "code")
    /\ ValueAt(doc.val.json, "code") = JString("TOO_MANY_REQUESTS")
    /\ ~decoded.ok

----------------------------------------------------------------------------
(* Root: the default constructor and the decoder differ.                   *)

\* C6: Root::default() is path "rootfs", readonly Some(true); a Root
\* document without a readonly key decodes to readonly None; a decoded
\* value with readonly None is encoded without a readonly key.
C6_RootDefaultAsymmetry ==
    /\ (pc = "entity" /\ ty = "Root" /\ origin = "default") =>
            entity[1] = [path |-> "rootfs", readonly |-> Some(TRUE)]
    /\ (pc = "decoded" /\ ty = "Root" /\ ~HasKey(doc.val.json, "readonly")) =>
            /\ decoded.ok
            /\ decoded.val.readonly = None
    /\ (pc = "encoded" /\ ty = "Root" /\ origin = "decode"
            /\ entity[1].readonly = None) =>
            /\ doc.ok
            /\ ~HasKey(doc.val.json, "readonly")

C6_Witness ==
    /\ pc = "decoded"
    /\ ty = "Root"
    /\ doc.val.json = JObject(<<Member("path", JString("rootfs"))>>)
    /\ decoded = Ok([path |-> "rootfs", readonly |-> None])

----------------------------------------------------------------------------
(* A built value and the value decoded from the assigned fields.           *)

\* the JSON object that holds exactly the fields assigned to builder b
AssignedObject(S, b, order) ==
    LET set == SelectSeq(S.fields, LAMBDA f : IsSome(b[f.name]))
    IN  JObject([i \in 1..Len(set) |->
            Member(set[i].wire,
                   SerializeValue(set[i].ty, b[set[i].name][1], order))])

\* whether every assigned value can be written as JSON
Assignable(S, b) ==
    \A i \in 1..Len(S.fields) :
        IsSome(b[S.fields[i].name]) =>
            ~SerializeFails(S.fields[i].ty, b[S.fields[i].name][1])

DecodeAssigned ==
    Deserialize(StructOf(ty),
                [pretty |-> FALSE,
                 json |-> AssignedObject(StructOf(ty), builder, iter)])

\* the fields that a builder fills differently from the decoder when unset
LeftToDefault ==
    \/ ty = "Root" /\ (IsNone(builder.path) \/ IsNone(builder.readonly))
    \/ ty = "Hook" /\ IsNone(builder.path)
    \/ ty = "Mount" /\ IsNone(builder.destination)

\* C7 as stated: whenever build() succeeds, decoding the JSON object that
\* holds exactly the assigned fields succeeds and yields the built value.
C7_BuildEqualsDecode ==
    (pc = "entity" /\ origin = "builder"
        /\ Assignable(StructOf(ty), builder)) =>
            DecodeAssigned = built

\* C7 amended: whenever build() succeeds, decoding the JSON object that
\* holds exactly the assigned fields succeeds and yields the built value,
\* unless Root.path, Root.readonly, Hook.path or Mount.destination was left
\* unset; with one of these unset the two differ.
C7_BuildEqualsDecodeUnlessDefaulted ==
    (pc = "entity" /\ origin = "builder"
        /\ Assignable(StructOf(ty), builder)) =>
            ((DecodeAssigned = built) <=> ~LeftToDefault)

C7_Witness ==
    /\ pc = "entity"
    /\ origin = "builder"
    /\ ty = "ImageIndex"
    /\ IsNone(builder.media_type)
    /\ IsNone(builder.annotations)
    /\ entity[1] = create_index
    /\ DecodeAssigned = Ok(create_index)

----------------------------------------------------------------------------
(* Invariants of the values in hand.                                       *)

\* C8: every ImageIndex that comes from the default constructor, from
\* ImageIndexBuilder.build() or from a successful decode has
\* schema_version = SCHEMA_VERSION and a manifests sequence.
C8_SchemaVersion ==
    (pc = "entity" /\ ty = "ImageIndex"
        /\ origin \in {"default", "builder", "decode"}) =>
            /\ entity[1].schema_version = SCHEMA_VERSION
            /\ "manifests" \in DOMAIN entity[1]
            /\ Len(entity[1].manifests) >= 0

\* C9: every Hook that comes from HookBuilder.build() or from a successful
\* decode has no timeout or a timeout greater than zero.
C9_HookTimeout ==
    (pc = "entity" /\ ty = "Hook" /\ origin \in {"builder", "decode"}) =>
        \/ entity[1].timeout = None
        \/ entity[1].timeout[1] > 0

----------------------------------------------------------------------------
(* Required fields on parse.                                               *)

\* the keys without which a document of the struct named t does not decode
RequiredKeys(t) ==
    CASE t = "ErrorResponse" -> <<"errors">>
      [] t = "ErrorInfo" -> <<"code">>
      [] t = "ImageIndex" -> <<"schemaVersion", "manifests">>
      [] t = "Hook" -> <<"path">>
      [] t = "Mount" -> <<"destination">>
      [] OTHER -> <<>>

\* the required keys that object j lacks, in declaration order
Lacking(keys, j) == SelectSeq(keys, LAMBDA k : ~HasKey(j, k))

\* whether r is the decoded value of object j with every optional field
\* whose key j lacks absent
OptionalAbsent(t, j, r) ==
    /\ r.ok
    /\ \A i \in 1..Len(StructOf(t).fields) :
        LET f == StructOf(t).fields[i]
        IN  (f.ty.k = "Option" /\ ~HasKey(j, f.wire)) => r.val[f.name] = None

\* whether the ErrorCode literal of an ErrorInfo document is unrecognized
BadLiteral(t, j) ==
    /\ t = "ErrorInfo"
    /\ HasKey(j, "code")
    /\ ~DeserializeErrorCode(ValueAt(j, "code").v).ok

\* C10 as stated: a document that lacks ErrorResponse.errors,
\* ErrorInfo.code, ImageIndex.schemaVersion, ImageIndex.manifests,
\* Hook.path, Mount.destination or Root.path does not decode; a document
\* that lacks only optional fields decodes with those fields absent.
C10_RequiredOnParse ==
    (pc = "decoded" /\ ~BadLiteral(ty, doc.val.json)) =>
        LET keys == IF ty = "Root" THEN <<"path">> ELSE RequiredKeys(ty)
        IN  IF Lacking(keys, doc.val.json) # <<>>
            THEN ~decoded.ok
            ELSE OptionalAbsent(ty, doc.val.json, decoded)

\* C10 amended: a document that lacks ErrorResponse.errors, ErrorInfo.code,
\* ImageIndex.schemaVersion, ImageIndex.manifests, Hook.path or
\* Mount.destination does not decode, the failure being a missing field
\* that names the first such key; a document that lacks only optional
\* fields decodes with those fields absent; a Root document that lacks
\* path decodes, with the empty path.
C10_RequiredOnParseExceptRootPath ==
    (pc = "decoded" /\ ~BadLiteral(ty, doc.val.json)) =>
        LET lacking == Lacking(RequiredKeys(ty), doc.val.json)
        IN  /\ IF lacking # <<>>
               THEN decoded = Err("missing field", lacking[1])
               ELSE OptionalAbsent(ty, doc.val.json, decoded)
            /\ (ty = "Root" /\ ~HasKey(doc.val.json, "path")) =>
                    (decoded.ok /\ decoded.val.path = "")

C10_Witness ==
    /\ pc = "decoded"
    /\ ty = "Hook"
    /\ ~HasKey(doc.val.json, "path")
    /\ HasKey(doc.val.json, "timeout")
    /\ decoded = Err("missing field", "path")

----------------------------------------------------------------------------
(* Unknown keys on parse.                                                  *)

\* document j of type t without the members, in the objects of the structs
\* of the catalog at every nesting level, whose key is no field's key
RECURSIVE StripUnknown(_, _)
StripUnknown(t, j) ==
    CASE t.k = "struct" /\ t.name \in Catalog /\ j.j = "object" ->
            LET S == StructOf(t.name)
                IsKey(k) == \E f \in Range(S.fields) : f.wire = k
                TypeAt(k) == (CHOOSE f \in Range(S.fields) : f.wire = k).ty
                known == SelectSeq(j.v, LAMBDA m : IsKey(m.k))
            IN  JObject([i \in 1..Len(known) |->
                    Member(known[i].k,
                           StripUnknown(TypeAt(known[i].k), known[i].v))])
      [] t.k = "Option" -> StripUnknown(t.of, j)
      [] t.k = "Vec" /\ j.j = "array" ->
            JArray([i \in 1..Len(j.v) |-> StripUnknown(t.of, j.v[i])])
      [] OTHER -> j

HasUnknown(t, j) == StripUnknown(t, j) # j

\* C11: a document that decodes still decodes, to an equal value, when a
\* key that is no wire name of the entity is added to it at any nesting
\* level that is an entity object; the key is not written when the decoded
\* value is encoded again.
C11_UnknownIgnored ==
    /\ (pc = "decoded" /\ HasUnknown(TStruct(ty), doc.val.json)) =>
            LET d == [doc.val EXCEPT
                        !.json = StripUnknown(TStruct(ty), doc.val.json)]
            IN  Deserialize(StructOf(ty), d).ok =>
                    decoded = Deserialize(StructOf(ty), d)
    /\ (pc = "encoded" /\ origin = "decode" /\ doc.ok) =>
            ~HasUnknown(TStruct(ty), doc.val.json)

C11_Witness ==
    /\ pc = "decoded"
    /\ ty = "Solaris"
    /\ HasKey(doc.val.json, "cappedCPU")
    /\ ValueAt(doc.val.json, "cappedCPU")
            = JObject(<<Member("ncpus", JString("8")), UnknownMember>>)
    /\ decoded.ok
    /\ decoded.val.capped_cpu = Some([ncpus |-> Some("8")])

----------------------------------------------------------------------------
(* Wire names.                                                             *)

\* the keys of each struct's fields, in declaration order
WireKeys ==
    [ErrorResponse |-> <<"errors">>,
     ErrorInfo |-> <<"code", "message", "detail">>,
     ImageIndex |-> <<"schemaVersion", "mediaType", "manifests", "annotations">>,
     Hooks |-> <<"prestart", "createRuntime", "createContainer",
                 "startContainer", "poststart", "poststop">>,
     Hook |-> <<"path", "args", "env", "timeout">>,
     Root |-> <<"path", "readonly">>,
     Mount |-> <<"destination", "type", "source", "options">>,
     Solaris |-> <<"milestone", "limitpriv", "maxShmMemory", "anet",
                   "cappedCPU", "cappedMemory">>,
     SolarisAnet |-> <<"linkname", "lowerLink", "allowedAddress",
                       "configureAllowedAddress", "defrouter",
                       "linkProtection", "macAddress">>,
     SolarisCappedCPU |-> <<"ncpus">>,
     SolarisCappedMemory |-> <<"physical", "swap">>]

\* C12: every field is encoded under its wire key and decoded only from
\* it: lowerCamelCase of the identifier for ImageIndex, Hooks, Solaris and
\* SolarisAnet, "cappedCPU" for Solaris.capped_cpu, "type" for Mount.typ;
\* a document that holds a field under another spelling of its key
\* (schema_version, capped_cpu, cappedCpu, typ) is decoded as a document
\* that lacks the field.
C12_WireNames ==
    /\ (pc = "encoded" /\ doc.ok) =>
        /\ Keys(doc.val.json) \subseteq Range(WireKeys[ty])
        /\ \A i \in 1..Len(StructOf(ty).fields) :
            LET f == StructOf(ty).fields[i]
                k == WireKeys[ty][i]
            IN  IF f.ty.k = "Option" /\ IsNone(entity[1][f.name])
                THEN ~HasKey(doc.val.json, k)
                ELSE /\ HasKey(doc.val.json, k)
                     /\ ValueAt(doc.val.json, k)
                            = SerializeValue(f.ty, entity[1][f.name], iter)
    /\ pc = "decoded" =>
        \A i \in 1..Len(StructOf(ty).fields) :
            LET f == StructOf(ty).fields[i]
                k == WireKeys[ty][i]
            IN  IF HasKey(doc.val.json, k)
                THEN decoded.ok =>
                        Ok(decoded.val[f.name])
                            = DeserializeValue(f.ty, ValueAt(doc.val.json, k))
                ELSE IF f.ty.k = "Option"
                THEN decoded.ok => decoded.val[f.name] = None
                ELSE IF ty = "Root"
                THEN decoded.ok => decoded.val[f.name] = ""
                ELSE ~decoded.ok

C12_Witness ==
    /\ pc = "decoded"
    /\ ty = "Solaris"
    /\ HasKey(doc.val.json, "cappedCpu")
    /\ HasKey(doc.val.json, "maxShmMemory")
    /\ decoded.ok
    /\ decoded.val.capped_cpu = None
    /\ IsSome(decoded.val.max_shm_memory)

----------------------------------------------------------------------------
(* get_default_mounts and the callers that own what it returns.            *)

\* most calls of get_default_mounts whose results are alive at a time
MaxCalls == 2

\* get_default_mounts, mutated: the cgroup mount is left out and /proc
\* carries options
get_default_mounts_NoCgroup ==
    << [destination |-> "/proc", typ |-> Some("proc"),
        source |-> Some("proc"), options |-> Some(<<"nosuid">>)],
       [destination |-> "/dev", typ |-> Some("tmpfs"),
        source |-> Some("tmpfs"),
        options |-> Some(<<"nosuid", "strictatime", "mode=755", "size=65536k">>)],
       [destination |-> "/dev/pts", typ |-> Some("devpts"),
        source |-> Some("devpts"),
        options |-> Some(<<"nosuid", "noexec", "newinstance",
                           "ptmxmode=0666", "mode=0620", "gid=5">>)],
       [destination |-> "/dev/shm", typ |-> Some("tmpfs"),
        source |-> Some("shm"),
        options |-> Some(<<"nosuid", "noexec", "nodev", "mode=1777",
                           "size=65536k">>)],
       [destination |-> "/dev/mqueue", typ |-> Some("mqueue"),
        source |-> Some("mqueue"),
        options |-> Some(<<"nosuid", "noexec", "nodev">>)],
       [destination |-> "/sys", typ |-> Some("sysfs"),
        source |-> Some("sysfs"),
        options |-> Some(<<"nosuid", "noexec", "nodev", "ro">>)] >>

\* get_default_mounts(): the vec! literal, built anew by every call
get_default_mounts ==
    << [destination |-> "/proc", typ |-> Some("proc"),
        source |-> Some("proc"), options |-> None],
       [destination |-> "/dev", typ |-> Some("tmpfs"),
        source |-> Some("tmpfs"),
        options |-> Some(<<"nosuid", "strictatime", "mode=755", "size=65536k">>)],
       [destination |-> "/dev/pts", typ |-> Some("devpts"),
        source |-> Some("devpts"),
        options |-> Some(<<"nosuid", "noexec", "newinstance",
                           "ptmxmode=0666", "mode=0620", "gid=5">>)],
       [destination |-> "/dev/shm", typ |-> Some("tmpfs"),
        source |-> Some("shm"),
        options |-> Some(<<"nosuid", "noexec", "nodev", "mode=1777",
                           "size=65536k">>)],
       [destination |-> "/dev/mqueue", typ |-> Some("mqueue"),
        source |-> Some("mqueue"),
        options |-> Some(<<"nosuid", "noexec", "nodev">>)],
       [destination |-> "/sys", typ |-> Some("sysfs"),
        source |-> Some("sysfs"),
        options |-> Some(<<"nosuid", "noexec", "nodev", "ro">>)],
       [destination |-> "/sys/fs/cgroup", typ |-> Some("cgroup"),
        source |-> Some("cgroup"),
        options |-> Some(<<"nosuid", "noexec", "nodev", "relatime", "ro">>)] >>

\* let v = get_default_mounts(): the caller owns the returned Vec
CallGetDefaultMounts ==
    /\ Len(mounts) < MaxCalls
    /\ mounts' = Append(mounts, get_default_mounts)
    /\ UNCHANGED valueVars

\* v.pop() on one of the returned vectors
PopMount ==
    /\ \E i \in 1..Len(mounts) :
        /\ Len(mounts[i]) > 0
        /\ mounts' = [mounts EXCEPT ![i] = SubSeq(@, 1, Len(@) - 1)]
    /\ UNCHANGED valueVars

\* v[0].options = Some(vec![]) on one of the returned vectors
ClearOptions ==
    /\ \E i \in 1..Len(mounts) :
        /\ Len(mounts[i]) > 0
        /\ mounts[i][1].options # Some(<<>>)
        /\ mounts' = [mounts EXCEPT ![i][1].options = Some(<<>>)]
    /\ UNCHANGED valueVars

\* v.push(mount) on one of the returned vectors
PushMount ==
    /\ \E i \in 1..Len(mounts) :
        /\ Len(mounts[i]) < Len(get_default_mounts)
        /\ mounts' = [mounts EXCEPT ![i] =
                        Append(@, [destination |-> "/tmp", typ |-> None,
                                   source |-> None, options |-> None])]
    /\ UNCHANGED valueVars

NextMounts ==
    \/ CallGetDefaultMounts
    \/ PopMount
    \/ ClearOptions
    \/ PushMount

SpecMounts == Init /\ [][NextMounts]_vars

\* destination and type of the default mounts, in order
DefaultMountTable ==
    << <<"/proc", "proc">>, <<"/dev", "tmpfs">>, <<"/dev/pts", "devpts">>,
       <<"/dev/shm", "tmpfs">>, <<"/dev/mqueue", "mqueue">>,
       <<"/sys", "sysfs">>, <<"/sys/fs/cgroup", "cgroup">> >>

\* C13: every call of get_default_mounts returns a sequence of exactly
\* seven mounts, /proc (proc), /dev (tmpfs), /dev/pts (devpts), /dev/shm
\* (tmpfs), /dev/mqueue (mqueue), /sys (sysfs), /sys/fs/cgroup (cgroup), in
\* this order, each with type and source present and only /proc without
\* options, whatever was done to the sequences returned before; a step
\* that modifies one returned sequence leaves the others as they are.
C13_DefaultMounts ==
    [][/\ Len(mounts') > Len(mounts) =>
            LET r == mounts'[Len(mounts')]
            IN  /\ Len(mounts') = Len(mounts) + 1
                /\ \A i \in 1..Len(mounts) : mounts'[i] = mounts[i]
                /\ Len(r) = 7
                /\ Len(DefaultMountTable) = 7
                /\ \A k \in 1..Len(r) :
                    /\ r[k].destination = DefaultMountTable[k][1]
                    /\ r[k].typ = Some(DefaultMountTable[k][2])
                    /\ IsSome(r[k].source)
                    /\ IsNone(r[k].options) <=> k = 1
       /\ Len(mounts') = Len(mounts) =>
            \A i \in 1..Len(mounts) :
                mounts'[i] # mounts[i] =>
                    \A h \in 1..Len(mounts) : h # i => mounts'[h] = mounts[h]
      ]_vars

C13_Witness ==
    /\ Len(mounts) = 2
    /\ Len(mounts[1]) = 5
    /\ mounts[1][1].options = Some(<<>>)
    /\ mounts[2] = get_default_mounts
    /\ Len(mounts[2]) = 7

----------------------------------------------------------------------------
(* ErrorResponse: Display and detail.                                      *)

\* C14: the string of every ErrorResponse is "distribution: registry
\* returned error" whatever its errors hold, and detail() is the errors
\* sequence the response was constructed or decoded with, in length and
\* order.
C14_DisplayAndDetail ==
    /\ (pc = "entity" /\ ty = "ErrorResponse") =>
            /\ to_string(entity[1]) = "distribution: registry returned error"
            /\ detail(entity[1]) = entity[1].errors
    /\ (pc = "entity" /\ ty = "ErrorResponse" /\ origin = "builder") =>
            detail(entity[1]) = builder.errors[1]
    /\ (pc = "decoded" /\ ty = "ErrorResponse" /\ decoded.ok) =>
            LET arr == ValueAt(doc.val.json, "errors").v
            IN  /\ to_string(decoded.val)
                    = "distribution: registry returned error"
                /\ Len(detail(decoded.val)) = Len(arr)
                /\ \A i \in 1..Len(arr) :
                    Ok(detail(decoded.val)[i])
                        = DeserializeValue(TStruct("ErrorInfo"), arr[i])

C14_Witness ==
    /\ pc = "decoded"
    /\ ty = "ErrorResponse"
    /\ decoded.ok
    /\ Len(detail(decoded.val)) = 2
    /\ detail(decoded.val)[1].code = "TooManyRequests"
    /\ detail(decoded.val)[2].code = "BlobUnknown"
    /\ to_string(decoded.val) = ERR_REGISTRY

----------------------------------------------------------------------------
(* Builders: the order of the setter calls.                                *)

\* the setter calls of the builder of struct S: a field and a value
SetterCalls(S) ==
    UNION {{[n |-> S.fields[i].name, x |-> x] : x \in S.fields[i].inputs} :
                i \in 1..Len(S.fields)}

\* C15: the outcome of build() depends only on the last value assigned to
\* each field: from every state a builder reaches by setter calls, a
\* setter call leaves the other fields as accumulated, two calls on
\* different fields give the same builder and the same build() outcome in
\* either order, two calls on one field give what the second alone gives;
\* and build() yields the outcome of the accumulated fields.
C15_OrderIndependent ==
    /\ pc = "building" =>
        LET S == StructOf(ty)
        IN  \A c \in SetterCalls(S), d \in SetterCalls(S) :
                LET bc == Setter(S, builder, c.n, c.x)
                    bd == Setter(S, builder, d.n, d.x)
                    bcd == Setter(S, bc, d.n, d.x)
                    bdc == Setter(S, bd, c.n, c.x)
                IN  /\ \A n \in FieldNames(S) \ {c.n} : bc[n] = builder[n]
                    /\ IsSome(bc[c.n])
                    /\ c.n # d.n =>
                        /\ bcd = bdc
                        /\ Build(S, bcd) = Build(S, bdc)
                    /\ c.n = d.n =>
                        /\ bcd = bd
                        /\ Build(S, bcd) = Build(S, bd)
    /\ (pc \in {"entity", "failed"} /\ built # NoResult) =>
            built = Build(StructOf(ty), builder)

C15_Witness ==
    /\ pc = "entity"
    /\ origin = "builder"
    /\ ty = "ErrorInfo"
    /\ builder.code = Some("Denied")
    /\ builder.message = Some(Some("m"))
    /\ builder.detail = Some(Some(""))
    /\ built = Ok([code |-> "Denied", message |-> Some("m"),
                   detail |-> Some("")])

----------------------------------------------------------------------------
(* Builders of structs with a struct-level default.                        *)

\* the structs declared with the struct-level #[builder(default)]
StructDefaultBuilders ==
    {"Hooks", "Hook", "Root", "Mount", "Solaris", "SolarisAnet",
     "SolarisCappedCPU", "SolarisCappedMemory"}

\* the value of the default constructor of the struct named t: Root is
\* "rootfs" and read-only, the others hold the empty path and no optional
\* field
DefaultConstructed(t) ==
    IF t = "Root" THEN [path |-> "rootfs", readonly |-> Some(TRUE)]
    ELSE [n \in FieldNames(StructOf(t)) |->
            IF FieldOf(StructOf(t), n).ty.k = "Option" THEN None ELSE ""]

====
